---- MODULE Spec2Model ----
(***************************************************************************)
(* Model of package paladin (src/paladin.go): a coordinator ("Paladin")    *)
(* that owns a mutex guard and whose Run method opens a resource, starts   *)
(* the user task in its own goroutine, waits for the first of              *)
(* {SIGINT, task finished}, re-acquires the guard and closes the resource. *)
(*                                                                         *)
(* One coordinator is modelled, with up to MaxRuns sequential calls of     *)
(* Run on it.  The goroutines a Run starts (signal listener, task          *)
(* wrapper) are never stopped by the code, so the goroutines of earlier    *)
(* Runs stay part of the state.  The user callbacks are the ones of        *)
(* src/paladin_test.go (runner, protectedRunner) and of                    *)
(* src/demos/simple/simple.go.                                             *)
(***************************************************************************)
EXTENDS Integers, Sequences, FiniteSets, TLC

(* ------------------------------ bounds --------------------------------- *)
\* number of sequential Run calls on the coordinator
MaxRuns == 2
\* number of SIGINTs the environment delivers in a behaviour
MaxInterrupts == 2
\* loop count of the test tasks (iterations in paladin_test.go, scaled down)
Iterations == 2
\* loop count of the demo task (10 in simple.go, scaled down)
Says == 1

(* ---------------------------- constants -------------------------------- *)
\* capacity of the signal channel: make(chan os.Signal, 1024)
SigCap == 1024
\* the nil resource handle; the handle of Run r is r
Nil == 0
\* p.Signal = nil
NoSignal == "nil"
\* os.Interrupt, the only signal Run asks to be notified of
Interrupt == "interrupt"
\* the nil error
NoError == "nil"

Runs == 1..MaxRuns
Kinds == {"runner", "protectedRunner", "simple"}
OpenErrors == {"ENOENT", "EACCES"}
CloseErrors == {"EIO"}

VARIABLES
  cpc,        \* position of the caller of Run (the coordinator)
  run,        \* number of Run calls started so far; the current Run
  guard,      \* p.guard: [locked, owner]; owner 0 = coordinator, r = task of Run r
  Signal,     \* p.Signal
  c,          \* Run's local c: the resource handle the opener returned
  err,        \* Run's result
  e,          \* Run's local e: the event received from done
  sig,        \* sig[r]: contents of the signal channel made by Run r
  lpc,        \* lpc[r]: position of the listener goroutine of Run r
  ls,         \* ls[r]: e.s of the listener goroutine of Run r
  kind,       \* kind[r]: which Runner was passed to Run r
  arg,        \* arg[r]: the handle the task of Run r was started with
  tpc,        \* tpc[r]: position of the task goroutine of Run r
  result,     \* result[r]: env.result of the resource of Run r
  closed,     \* closed[r]: env.closed of the resource of Run r
  closes,     \* closes[r]: number of calls of the closer on the resource of Run r
  handle,     \* handle[r]: the handle the opener of Run r returned (Nil: none)
  openErr,    \* the error the opener of the current Run returned
  closeErr,   \* the error the closer of the current Run returned
  delivered,  \* number of SIGINTs delivered so far
  entrySignal,\* history: p.Signal as it was when the current Run was called
  during,     \* history: SIGINTs delivered between call and return of the current Run
  early,      \* history: those of during delivered before the task's first Enter
  recvAt,     \* history: the guard as it was when <-done returned in the current Run
  recvEarly   \* history: the task had completed no Enter when <-done returned

coordVars == <<cpc, run, c, err, e>>
listenerVars == <<sig, lpc, ls>>
taskVars == <<kind, arg, tpc>>
envVars == <<result, closed, closes, handle, openErr, closeErr>>
histVars == <<entrySignal, during, early, recvAt, recvEarly>>

vars == <<coordVars, guard, Signal, listenerVars, taskVars, envVars, delivered,
          histVars>>

(* ------------------------------ tasks ---------------------------------- *)
\* for i:=0; i<iterations; i++ { e.result++ }
Incs == [i \in 1..Iterations |-> "inc"]

RECURSIVE SayLoop(_)
\* for i:=0; i < 10; i++ { say(s); ... }  with say = Enter; Printf; Leave
SayLoop(n) == IF n = 0 THEN << >> ELSE <<"Enter", "print", "Leave">> \o SayLoop(n - 1)

\* the body of the Runner as a sequence of operations
Program(k) ==
  CASE k = "runner" -> Incs
    [] k = "protectedRunner" -> <<"Enter">> \o Incs \o <<"Leave", "inc">>
    [] k = "simple" -> <<"Enter", "read", "Leave">> \o SayLoop(Says)

\* operations that use the resource handle
AccessOps == {"inc", "read"}

Body(r) == Program(kind[r])
\* position after the last operation of the body: blocked at done <- e
AtSend(r) == Len(Body(r)) + 1
\* the task goroutine has ended
Ended(r) == Len(Body(r)) + 2

\* number of operations op among the first n of program p
Count(p, n, op) == Cardinality({j \in 1..n : j <= Len(p) /\ p[j] = op})

\* at position i of program p the task is between an Enter and its Leave
RegionAt(p, i) == Count(p, i - 1, "Enter") > Count(p, i - 1, "Leave")

\* the task of Run r is between an Enter and the matching Leave
InRegion(r) == tpc[r] >= 1 /\ RegionAt(Body(r), tpc[r])

\* the task of Run r has not completed any Enter yet
NoEnterYet(r) == tpc[r] = 0 \/ Count(Body(r), tpc[r] - 1, "Enter") = 0

(* ------------------------------ guard ---------------------------------- *)
Locked(o) == [locked |-> TRUE, owner |-> o]
Unlocked == [locked |-> FALSE, owner |-> 0]

\* p.guard.Lock() can return
CanEnter == ~guard.locked
\* p.guard.Unlock(); unlocking an unlocked sync.Mutex is a fatal error
CanLeave == guard.locked

NoEvent == [os |-> FALSE, s |-> NoSignal]
NoRecv == Locked(0)

\* a Run has been called and has not returned
InRun == cpc \notin {"idle", "returned"}

(* --------------------------- construction ------------------------------ *)
\* mutant of Init: New does not call p.Enter()
Init_NoEnter ==
  /\ cpc = "idle"
  /\ run = 0
  /\ guard = Unlocked
  /\ Signal = NoSignal
  /\ c = Nil
  /\ err = NoError
  /\ e = NoEvent
  /\ sig = [r \in Runs |-> << >>]
  /\ lpc = [r \in Runs |-> "none"]
  /\ ls = [r \in Runs |-> NoSignal]
  /\ kind = [r \in Runs |-> "runner"]
  /\ arg = [r \in Runs |-> Nil]
  /\ tpc = [r \in Runs |-> 0]
  /\ result = [r \in Runs |-> 0]
  /\ closed = [r \in Runs |-> FALSE]
  /\ closes = [r \in Runs |-> 0]
  /\ handle = [r \in Runs |-> Nil]
  /\ openErr = NoError
  /\ closeErr = NoError
  /\ delivered = 0
  /\ entrySignal = NoSignal
  /\ during = 0
  /\ early = 0
  /\ recvAt = NoRecv
  /\ recvEarly = FALSE

\* New(): p.Signal = nil; p.Enter()
Init ==
  /\ cpc = "idle"
  /\ run = 0
  /\ guard = Locked(0)
  /\ Signal = NoSignal
  /\ c = Nil
  /\ err = NoError
  /\ e = NoEvent
  /\ sig = [r \in Runs |-> << >>]
  /\ lpc = [r \in Runs |-> "none"]
  /\ ls = [r \in Runs |-> NoSignal]
  /\ kind = [r \in Runs |-> "runner"]
  /\ arg = [r \in Runs |-> Nil]
  /\ tpc = [r \in Runs |-> 0]
  /\ result = [r \in Runs |-> 0]
  /\ closed = [r \in Runs |-> FALSE]
  /\ closes = [r \in Runs |-> 0]
  /\ handle = [r \in Runs |-> Nil]
  /\ openErr = NoError
  /\ closeErr = NoError
  /\ delivered = 0
  /\ entrySignal = NoSignal
  /\ during = 0
  /\ early = 0
  /\ recvAt = NoRecv
  /\ recvEarly = FALSE

(* --------------------------- environment ------------------------------- *)
\* The operating system delivers SIGINT.  signal.Notify was called on the
\* channel of every Run started so far and is never undone; the runtime
\* sends without blocking and drops the signal for a full channel.  Before
\* the first Run no channel is registered and SIGINT ends the process, so
\* deliveries start with the first Run.
Deliver ==
  /\ run >= 1
  /\ delivered < MaxInterrupts
  /\ delivered' = delivered + 1
  /\ sig' = [r \in Runs |->
              IF r <= run /\ Len(sig[r]) < SigCap
              THEN Append(sig[r], Interrupt) ELSE sig[r]]
  /\ during' = IF InRun THEN during + 1 ELSE during
  /\ early' = IF InRun /\ NoEnterYet(run) THEN early + 1 ELSE early
  /\ UNCHANGED <<coordVars, guard, Signal, lpc, ls, taskVars, envVars,
                 entrySignal, recvAt, recvEarly>>

(* ------------------------------ Run ------------------------------------ *)
\* Run is called with a Runner k: err = nil, the signal channel is made and
\* registered, done is made, the listener goroutine is started.
RunStart(k) ==
  /\ cpc \in {"idle", "returned"}
  /\ run < MaxRuns
  /\ run' = run + 1
  /\ cpc' = "open"
  /\ err' = NoError
  /\ c' = Nil
  /\ e' = NoEvent
  /\ kind' = [kind EXCEPT ![run + 1] = k]
  /\ lpc' = [lpc EXCEPT ![run + 1] = "recv"]
  /\ openErr' = NoError
  /\ closeErr' = NoError
  /\ entrySignal' = Signal
  /\ during' = 0
  /\ early' = 0
  /\ recvAt' = NoRecv
  /\ recvEarly' = FALSE
  /\ UNCHANGED <<guard, Signal, sig, ls, arg, tpc, result, closed, closes,
                 handle, delivered>>

\* mutant of OpenCall: the runner goroutine is started before the opener is called
OpenCall_Spawn ==
  /\ cpc = "open"
  /\ cpc' = "opening"
  /\ tpc' = [tpc EXCEPT ![run] = 1]
  /\ arg' = [arg EXCEPT ![run] = c]
  /\ UNCHANGED <<run, c, err, e, guard, Signal, listenerVars, kind,
                 envVars, delivered, histVars>>

\* c, err := openr() is called
OpenCall ==
  /\ cpc = "open"
  /\ cpc' = "opening"
  /\ UNCHANGED <<run, c, err, e, guard, Signal, listenerVars, taskVars,
                 envVars, delivered, histVars>>

\* fmt.Sprintf("Could not open: %v", err)
OpenMessage(cause) == "Could not open: " \o cause

\* the opener returns a handle: e.result = 0; e.closed = false; return e, nil
OpenOk ==
  /\ cpc = "opening"
  /\ c' = run
  /\ handle' = [handle EXCEPT ![run] = run]
  /\ result' = [result EXCEPT ![run] = 0]
  /\ closed' = [closed EXCEPT ![run] = FALSE]
  /\ cpc' = "leave"
  /\ UNCHANGED <<run, err, e, guard, Signal, listenerVars, taskVars, closes,
                 openErr, closeErr, delivered, histVars>>

\* mutant of OpenFail: the message leaves the cause out
OpenFail_NoCause(cause) ==
  /\ cpc = "opening"
  /\ openErr' = cause
  /\ err' = "Could not open"
  /\ cpc' = "returned"
  /\ UNCHANGED <<run, c, e, guard, Signal, listenerVars, taskVars, result,
                 closed, closes, handle, closeErr, delivered, histVars>>

\* mutant of OpenFail: the guard is released before the opener's error is looked at
OpenFail_Leave(cause) ==
  /\ cpc = "opening"
  /\ openErr' = cause
  /\ err' = OpenMessage(cause)
  /\ guard' = Unlocked
  /\ cpc' = "returned"
  /\ UNCHANGED <<run, c, e, Signal, listenerVars, taskVars, result,
                 closed, closes, handle, closeErr, delivered, histVars>>

\* the opener returns an error: Run returns errors.New(msg)
OpenFail(cause) ==
  /\ cpc = "opening"
  /\ openErr' = cause
  /\ err' = OpenMessage(cause)
  /\ cpc' = "returned"
  /\ UNCHANGED <<run, c, e, guard, Signal, listenerVars, taskVars, result,
                 closed, closes, handle, closeErr, delivered, histVars>>

\* p.Leave(): allow runner to enter critical code
CoordLeave ==
  /\ cpc = "leave"
  /\ CanLeave
  /\ guard' = Unlocked
  /\ cpc' = "spawn"
  /\ UNCHANGED <<run, c, err, e, Signal, listenerVars, taskVars, envVars,
                 delivered, histVars>>

\* go func() { run(c); ... }()
Spawn ==
  /\ cpc = "spawn"
  /\ tpc' = [tpc EXCEPT ![run] = 1]
  /\ arg' = [arg EXCEPT ![run] = c]
  /\ cpc' = "wait"
  /\ UNCHANGED <<run, c, err, e, guard, Signal, listenerVars, kind, envVars,
                 delivered, histVars>>

\* mutant of RecvFromListener: the listener loops and waits for the next signal
RecvFromListener_Stay ==
  /\ cpc = "wait"
  /\ lpc[run] = "send"
  /\ e' = [os |-> TRUE, s |-> ls[run]]
  /\ lpc' = [lpc EXCEPT ![run] = "recv"]
  /\ cpc' = "enter"
  /\ recvAt' = guard
  /\ recvEarly' = NoEnterYet(run)
  /\ UNCHANGED <<run, c, err, guard, Signal, sig, ls, taskVars, envVars,
                 delivered, entrySignal, during, early>>

\* mutant of RecvFromListener: done is shared by all Runs of the coordinator
RecvFromListener_AnyRun ==
  /\ cpc = "wait"
  /\ \E r \in 1..run :
       /\ lpc[r] = "send"
       /\ e' = [os |-> TRUE, s |-> ls[r]]
       /\ lpc' = [lpc EXCEPT ![r] = "ended"]
  /\ cpc' = "enter"
  /\ recvAt' = guard
  /\ recvEarly' = NoEnterYet(run)
  /\ UNCHANGED <<run, c, err, guard, Signal, sig, ls, taskVars, envVars,
                 delivered, entrySignal, during, early>>

\* e := <-done meets the listener's done <- e (done is unbuffered)
RecvFromListener ==
  /\ cpc = "wait"
  /\ lpc[run] = "send"
  /\ e' = [os |-> TRUE, s |-> ls[run]]
  /\ lpc' = [lpc EXCEPT ![run] = "ended"]
  /\ cpc' = "enter"
  /\ recvAt' = guard
  /\ recvEarly' = NoEnterYet(run)
  /\ UNCHANGED <<run, c, err, guard, Signal, sig, ls, taskVars, envVars,
                 delivered, entrySignal, during, early>>

\* mutant of RecvFromTask: the task wrapper ends without sending on done
RecvFromTask_NoSend ==
  /\ run >= 1
  /\ tpc[run] = AtSend(run)
  /\ tpc' = [tpc EXCEPT ![run] = Ended(run)]
  /\ UNCHANGED <<coordVars, guard, Signal, listenerVars, kind, arg, envVars,
                 delivered, histVars>>

\* mutant of RecvFromTask: the wrapper sends on done without waiting for run(c)
RecvFromTask_Early ==
  /\ cpc = "wait"
  /\ tpc[run] \in 1..AtSend(run)
  /\ e' = [os |-> FALSE, s |-> NoSignal]
  /\ tpc' = [tpc EXCEPT ![run] = IF @ = AtSend(run) THEN Ended(run) ELSE @]
  /\ cpc' = "enter"
  /\ recvAt' = guard
  /\ recvEarly' = NoEnterYet(run)
  /\ UNCHANGED <<run, c, err, guard, Signal, listenerVars, kind, arg, envVars,
                 delivered, entrySignal, during, early>>

\* e := <-done meets the task wrapper's done <- e
RecvFromTask ==
  /\ cpc = "wait"
  /\ tpc[run] = AtSend(run)
  /\ e' = [os |-> FALSE, s |-> NoSignal]
  /\ tpc' = [tpc EXCEPT ![run] = Ended(run)]
  /\ cpc' = "enter"
  /\ recvAt' = guard
  /\ recvEarly' = NoEnterYet(run)
  /\ UNCHANGED <<run, c, err, guard, Signal, listenerVars, kind, arg, envVars,
                 delivered, entrySignal, during, early>>

\* mutant of CoordEnter: the coordinator goes on without waiting for the guard
CoordEnter_NoWait ==
  /\ cpc = "enter"
  /\ guard' = Locked(0)
  /\ cpc' = "record"
  /\ UNCHANGED <<run, c, err, e, Signal, listenerVars, taskVars, envVars,
                 delivered, histVars>>

\* mutant of CoordEnter: the coordinator does not take the guard at all
CoordEnter_Skip ==
  /\ cpc = "enter"
  /\ cpc' = "record"
  /\ UNCHANGED <<run, c, err, e, guard, Signal, listenerVars, taskVars,
                 envVars, delivered, histVars>>

\* p.Enter(): block runner from entering critical code
CoordEnter ==
  /\ cpc = "enter"
  /\ CanEnter
  /\ guard' = Locked(0)
  /\ cpc' = "record"
  /\ UNCHANGED <<run, c, err, e, Signal, listenerVars, taskVars, envVars,
                 delivered, histVars>>

\* mutant of Record: Run returns right after recording a signal
Record_ReturnOnSignal ==
  /\ cpc = "record"
  /\ Signal' = IF e.os THEN e.s ELSE Signal
  /\ cpc' = IF e.os THEN "returned" ELSE "close"
  /\ UNCHANGED <<run, c, err, e, guard, listenerVars, taskVars, envVars,
                 delivered, histVars>>

\* mutant of Record: p.Signal = e.s without the test of e.os
Record_Always ==
  /\ cpc = "record"
  /\ Signal' = e.s
  /\ cpc' = "close"
  /\ UNCHANGED <<run, c, err, e, guard, listenerVars, taskVars, envVars,
                 delivered, histVars>>

\* mutant of Record: the signal is not stored
Record_Forget ==
  /\ cpc = "record"
  /\ cpc' = "close"
  /\ UNCHANGED <<run, c, err, e, guard, Signal, listenerVars, taskVars,
                 envVars, delivered, histVars>>

\* if e.os { p.Signal = e.s }
Record ==
  /\ cpc = "record"
  /\ Signal' = IF e.os THEN e.s ELSE Signal
  /\ cpc' = "close"
  /\ UNCHANGED <<run, c, err, e, guard, listenerVars, taskVars, envVars,
                 delivered, histVars>>

\* err = closr(c) is called
CloseCall ==
  /\ cpc = "close"
  /\ closes' = [closes EXCEPT ![c] = closes[c] + 1]
  /\ cpc' = "closing"
  /\ UNCHANGED <<run, c, err, e, guard, Signal, listenerVars, taskVars,
                 result, closed, handle, openErr, closeErr, delivered, histVars>>

\* mutant of CloseReturn: Run drops the closer's result and returns nil
CloseReturn_Swallow(res) ==
  /\ cpc = "closing"
  /\ closed' = [closed EXCEPT ![c] = TRUE]
  /\ closeErr' = res
  /\ err' = NoError
  /\ cpc' = "returned"
  /\ UNCHANGED <<run, c, e, guard, Signal, listenerVars, taskVars, result,
                 closes, handle, openErr, delivered, histVars>>

\* the closer returns (e.closed = true; return nil, or an error); Run returns
CloseReturn(res) ==
  /\ cpc = "closing"
  /\ closed' = [closed EXCEPT ![c] = TRUE]
  /\ closeErr' = res
  /\ err' = res
  /\ cpc' = "returned"
  /\ UNCHANGED <<run, c, e, guard, Signal, listenerVars, taskVars, result,
                 closes, handle, openErr, delivered, histVars>>

(* ---------------------------- listener --------------------------------- *)
\* e.os = true; e.s = <-sig
ListenerRecv(r) ==
  /\ lpc[r] = "recv"
  /\ sig[r] # << >>
  /\ ls' = [ls EXCEPT ![r] = Head(sig[r])]
  /\ sig' = [sig EXCEPT ![r] = Tail(sig[r])]
  /\ lpc' = [lpc EXCEPT ![r] = "send"]
  /\ UNCHANGED <<coordVars, guard, Signal, taskVars, envVars, delivered,
                 histVars>>

(* ------------------------------ task ----------------------------------- *)
\* the next operation of the task of Run r
Op(r) == Body(r)[tpc[r]]

\* the task of Run r is inside its body
Running(r) == tpc[r] \in 1..Len(Body(r))

\* e.p.Enter() in the task
TaskEnter(r) ==
  /\ Running(r)
  /\ Op(r) = "Enter"
  /\ CanEnter
  /\ guard' = Locked(r)
  /\ tpc' = [tpc EXCEPT ![r] = tpc[r] + 1]
  /\ UNCHANGED <<coordVars, Signal, listenerVars, kind, arg, envVars,
                 delivered, histVars>>

\* e.p.Leave() in the task
TaskLeave(r) ==
  /\ Running(r)
  /\ Op(r) = "Leave"
  /\ CanLeave
  /\ guard' = Unlocked
  /\ tpc' = [tpc EXCEPT ![r] = tpc[r] + 1]
  /\ UNCHANGED <<coordVars, Signal, listenerVars, kind, arg, envVars,
                 delivered, histVars>>

\* e.result++ / ioutil.ReadAll(f) / fmt.Printf
TaskStep(r) ==
  /\ Running(r)
  /\ Op(r) \in {"inc", "read", "print"}
  /\ result' = [result EXCEPT ![arg[r]] = IF Op(r) = "inc" THEN @ + 1 ELSE @]
  /\ tpc' = [tpc EXCEPT ![r] = tpc[r] + 1]
  /\ UNCHANGED <<coordVars, guard, Signal, listenerVars, kind, arg, closed,
                 closes, handle, openErr, closeErr, delivered, histVars>>

(* --------------------------- specification ----------------------------- *)
Next ==
  \/ Deliver
  \/ \E k \in Kinds : RunStart(k)
  \/ OpenCall
  \/ OpenOk
  \/ \E cause \in OpenErrors : OpenFail(cause)
  \/ CoordLeave
  \/ Spawn
  \/ RecvFromListener
  \/ RecvFromTask
  \/ CoordEnter
  \/ Record
  \/ CloseCall
  \/ \E res \in {NoError} \cup CloseErrors : CloseReturn(res)
  \/ \E r \in Runs : ListenerRecv(r)
  \/ \E r \in Runs : TaskEnter(r)
  \/ \E r \in Runs : TaskLeave(r)
  \/ \E r \in Runs : TaskStep(r)

Spec == Init /\ [][Next]_vars

\* The scheduler runs every goroutine that can take a step; the callbacks
\* given to Run return.  Calls of Run and deliveries of SIGINT are up to the
\* environment and are not forced.
CoordNext ==
  \/ OpenCall \/ CoordLeave \/ Spawn \/ RecvFromListener \/ RecvFromTask
  \/ CoordEnter \/ Record \/ CloseCall
  \/ \E res \in {NoError} \cup CloseErrors : CloseReturn(res)

TaskNext(r) == TaskEnter(r) \/ TaskLeave(r) \/ TaskStep(r)

FairSpec ==
  /\ Spec
  /\ WF_vars(CoordNext)
  /\ \A r \in Runs : WF_vars(TaskNext(r))
  /\ \A r \in Runs : WF_vars(ListenerRecv(r))

TypeOK ==
  /\ cpc \in {"idle", "open", "opening", "leave", "spawn", "wait", "enter",
              "record", "close", "closing", "returned"}
  /\ run \in 0..MaxRuns
  /\ guard.locked \in BOOLEAN /\ guard.owner \in 0..MaxRuns
  /\ Signal \in {NoSignal, Interrupt}
  /\ \A r \in Runs : tpc[r] \in 0..Ended(r)
(* ------------------------------ claims --------------------------------- *)
\* Run r has returned
Returned(r) == r < run \/ (r = run /\ cpc = "returned")

\* the opener of Run r has returned a handle
Opened(r) == handle[r] # Nil

\* the closer of the current Run has been called
CloserInvoked == cpc \in {"closing", "returned"} /\ Opened(run)

\* C1: in every Run whose opener succeeds the closer is called exactly once:
\* no resource is ever closed twice, and when Run has returned its resource
\* has been closed once, however many SIGINTs were delivered.
C1_CloserExactlyOnce ==
  \A r \in Runs :
    /\ closes[r] <= 1
    /\ (Opened(r) /\ Returned(r)) => closes[r] = 1

\* a Run that saw more than one SIGINT has returned with its resource closed
C1_Witness ==
  /\ cpc = "returned" /\ Opened(run)
  /\ during >= 2
  /\ closes[run] = 1

\* C2: whenever the closer is about to be called or is executing, the
\* coordinator holds the guard and no task is inside an Enter/Leave region;
\* so a region that was open when the interruption won has been left.
C2_CloserOutsideRegions ==
  cpc \in {"close", "closing"} =>
    /\ guard = Locked(0)
    /\ \A r \in Runs : ~InRegion(r)

\* the interruption won while the task was inside a region, and the closer
\* is called with that region left
C2_Witness ==
  /\ cpc = "closing"
  /\ e.os
  /\ recvAt = Locked(run)
  /\ ~InRegion(run)

\* C3: a Run whose opener failed returns an error made of the cause, has
\* started no task and called no closer, leaves the guard with the
\* coordinator and leaves Signal as it was at the call.
C3_OpenerFailure ==
  \A r \in Runs :
    (Returned(r) /\ ~Opened(r)) =>
      /\ tpc[r] = 0 /\ arg[r] = Nil
      /\ closes[r] = 0
      /\ r = run =>
           /\ err # NoError
           /\ openErr \in OpenErrors
           /\ err = OpenMessage(openErr)
           /\ guard = Locked(0)
           /\ Signal = entrySignal

\* the opener failed in a Run on a coordinator that had recorded a signal,
\* and a SIGINT was delivered and taken by the listener during that Run
C3_Witness ==
  /\ cpc = "returned" /\ ~Opened(run)
  /\ entrySignal # NoSignal
  /\ during >= 1
  /\ lpc[run] = "send"
\* C4: under fair scheduling, once the opener of Run r has succeeded and the
\* task has finished its body or a SIGINT was delivered during the Run, the
\* closer is eventually called and Run r eventually returns.  (The tasks of
\* the model leave every region they enter and the closer returns.)
C4_ReleaseAlwaysHappens ==
  \A r \in Runs :
    (run = r /\ Opened(r) /\ (tpc[r] >= AtSend(r) \/ during >= 1))
      ~> (Returned(r) /\ closes[r] = 1)

\* a SIGINT arrived while the task was still inside its body, the opener
\* having succeeded, and that Run has returned with the resource closed
C4_Witness ==
  /\ cpc = "returned" /\ Opened(run)
  /\ e.os
  /\ tpc[run] < AtSend(run)
  /\ closes[run] = 1
\* C5 as stated: a Run (opener succeeding) during which no SIGINT was
\* delivered returns with Signal nil, the task ended and the closer called.
C5_Original ==
  (cpc = "returned" /\ Opened(run) /\ during = 0) =>
    /\ Signal = NoSignal
    /\ tpc[run] = Ended(run)
    /\ closes[run] = 1

\* C5 as amended: in a Run (opener succeeding) during which no SIGINT was
\* delivered, from the call of the closer on, Signal is what it was when
\* Run was called (nil on a fresh coordinator), the event received was the
\* task's, the task goroutine has ended and the closer has been called.
C5_NoInterrupt ==
  (CloserInvoked /\ during = 0) =>
    /\ Signal = entrySignal
    /\ run = 1 => Signal = NoSignal
    /\ ~e.os
    /\ tpc[run] = Ended(run)
    /\ closes[run] = 1

\* a second Run without any SIGINT has returned on a coordinator whose
\* first Run recorded one
C5_Witness ==
  /\ cpc = "returned" /\ Opened(run)
  /\ during = 0
  /\ run = 2
  /\ entrySignal = Interrupt

\* C6 as stated: when the first Run on a coordinator has returned, Signal
\* is set or the task has run to its end.
C6_Original ==
  (run = 1 /\ cpc = "returned") =>
    (Signal # NoSignal \/ tpc[1] = Ended(1))

\* C6 as amended: when the first Run on a coordinator has called the closer
\* (so its opener succeeded), Signal is set or the task has run to its end;
\* that stays so when Run has returned.
C6_SignalOrCompletion ==
  (run = 1 /\ CloserInvoked) =>
    (Signal # NoSignal \/ tpc[1] = Ended(1))

\* the first Run has returned after several SIGINTs with the task stopped
\* inside its body, and Signal is set
C6_Witness ==
  /\ run = 1 /\ cpc = "returned" /\ Opened(1)
  /\ during >= 2
  /\ Running(1)
  /\ Signal = Interrupt

\* C7 as stated: a SIGINT delivered between the call and the return of a Run
\* (here: one whose opener succeeded) is stored in Signal when Run returns.
C7_SignalStored ==
  (cpc = "returned" /\ Opened(run) /\ during >= 1) => Signal = Interrupt

\* the task of Run r executes an operation that uses the resource handle
AccessStep(r) ==
  /\ Running(r)
  /\ Op(r) \in AccessOps
  /\ tpc'[r] = tpc[r] + 1

\* the task of Run r completes an Enter or a step inside a region
ProtectedStep(r) ==
  /\ Running(r)
  /\ Op(r) = "Enter" \/ InRegion(r)
  /\ tpc'[r] = tpc[r] + 1

\* exactly one SIGINT was delivered in the current Run so far, and it came
\* before the task had entered a protected region
OneEarlyInterrupt == during = 1 /\ early = 1

\* C8 as stated: in a Run with exactly one SIGINT, delivered before the
\* task enters a protected region, the task makes no step that uses the
\* resource once the closer has returned.
C8_Original ==
  [][(OneEarlyInterrupt /\ run >= 1 /\ AccessStep(run)) => ~closed[run]]_vars

\* C8 as amended: in such a Run, and until Run is called again on the
\* coordinator, the task completes no Enter and makes no step inside a
\* protected region once the closer has been called.
C8_NoProtectedStepAfterClose ==
  [][(OneEarlyInterrupt /\ run >= 1 /\ ProtectedStep(run)) => closes[run] = 0]_vars

\* the one early SIGINT won, the resource is closed, Run has returned and
\* the task stands before an Enter it has not completed
C8_Witness ==
  /\ cpc = "returned" /\ OneEarlyInterrupt
  /\ e.os /\ closed[run]
  /\ Running(run) /\ Op(run) = "Enter"

\* the Running phase of a Run: from the coordinator's Leave to its Enter
RunningPhase == cpc \in {"spawn", "wait", "enter"}

\* C9: the guard is locked, by the coordinator, in every state outside the
\* Running phase of a Run; so it is locked before any Run and after each
\* return of Run, on the opener-failure path as on the normal one.
C9_GuardInvariant == ~RunningPhase => (guard.locked /\ guard.owner = 0)

\* a Run that closed its resource and then a Run whose opener failed have
\* both returned, with the first Run's task waiting at an Enter
C9_Witness ==
  /\ run = 2 /\ cpc = "returned"
  /\ Opened(1) /\ ~Opened(2)
  /\ Running(1) /\ Op(1) = "Enter"

\* the Run of the test's protectedRunner during which exactly one SIGINT
\* was delivered has returned
ScenarioB ==
  /\ cpc = "returned" /\ Opened(run)
  /\ kind[run] = "protectedRunner"
  /\ during = 1

\* C10 as stated: in scenario B the counter equals Iterations when Run has
\* returned, and the resource is closed.
C10_Original == ScenarioB => (result[run] = Iterations /\ closed[run])

\* C10 as amended: in scenario B, once Run has returned the counter is 0,
\* Iterations or Iterations + 1 (the increment after the region), never
\* strictly between 0 and Iterations; it is Iterations + 1 when the event
\* received was the task's; and the resource is closed.
C10_ScenarioB ==
  ScenarioB =>
    /\ result[run] \in {0, Iterations, Iterations + 1}
    /\ ~e.os => result[run] = Iterations + 1
    /\ closed[run]

\* the SIGINT won while the task was inside its region; Run has returned
\* with the region complete and the increment after it not yet made
C10_Witness ==
  /\ ScenarioB
  /\ e.os
  /\ recvAt = Locked(run)
  /\ result[run] = Iterations
\* C11: when the opener succeeded, the result of Run is the closer's result,
\* error or nil; and when the event received was the listener's, Signal is
\* set before the closer is called and stays set after it has returned,
\* whatever it returned.
C11_CloserResult ==
  /\ (cpc = "returned" /\ Opened(run)) => err = closeErr
  /\ (cpc \in {"close", "closing", "returned"} /\ Opened(run) /\ e.os) =>
       Signal = Interrupt

\* the interruption won, the closer failed, and Run has returned the
\* closer's error with Signal set
C11_Witness ==
  /\ cpc = "returned" /\ Opened(run)
  /\ e.os
  /\ closeErr \in CloseErrors
  /\ err = closeErr
  /\ Signal = Interrupt
\* C12: the task of a Run is started only after the opener of that Run has
\* returned a handle, and it is started with that handle; while the opener
\* has not returned, and after it has failed, the task has made no step and
\* the coordinator has not released the guard.
C12_OpenerBeforeTask ==
  \A r \in Runs :
    /\ tpc[r] > 0 => (Opened(r) /\ arg[r] = handle[r] /\ arg[r] = r)
    /\ (r = run /\ ~Opened(r)) => (tpc[r] = 0 /\ guard = Locked(0))
    /\ (r = run /\ RunningPhase) => Opened(r)

\* the task of the second Run is inside its body, started with the handle
\* of the second Run's opener
C12_Witness ==
  /\ run = 2 /\ Opened(2)
  /\ tpc[2] >= 2
  /\ arg[2] = handle[2]
  /\ handle[2] # handle[1]
\* the send on done of the listener / of the task wrapper of Run r has completed
ListenerSent(r) == lpc[r] = "ended"
TaskSent(r) == tpc[r] = Ended(r)

\* number of events of Run r that were received from done
Consumed(r) ==
  (IF ListenerSent(r) THEN 1 ELSE 0) + (IF TaskSent(r) THEN 1 ELSE 0)

EnterStep(r) ==
  /\ Running(r)
  /\ Op(r) = "Enter"
  /\ tpc'[r] = tpc[r] + 1

\* the coordinator has re-acquired the guard in the current Run
Drained == cpc \in {"record", "close", "closing", "returned"} /\ Opened(run)

\* C14: from the coordinator's re-acquisition of the guard on, through the
\* closer and after the return of Run, and as long as Run is not called
\* again, the guard stays locked by the coordinator and no task completes
\* an Enter.
C14_NoEnterAfterDrain ==
  [][(run >= 1 /\ Drained /\ run' = run) =>
       /\ guard' = Locked(0)
       /\ \A r \in 1..run : ~EnterStep(r)]_vars

\* the interruption won after the demo task's first region; Run has
\* returned and the task waits at the Enter of a later region
C14_Witness ==
  /\ cpc = "returned" /\ Opened(run)
  /\ e.os
  /\ kind[run] = "simple"
  /\ tpc[run] > 1
  /\ Running(run) /\ Op(run) = "Enter"
  /\ guard = Locked(0)
\* C15 as stated: in a Run with exactly one SIGINT, delivered before the
\* task enters a protected region, once the listener's event has been
\* received the task completes no Enter until the closer is called.
C15_Original ==
  [][(run >= 1 /\ OneEarlyInterrupt /\ e.os /\ cpc \in {"enter", "record", "close"})
       => ~EnterStep(run)]_vars

\* C15 as amended: in such a Run, when the closer is called either the event
\* received was the task's and the task has run to its end, or it was the
\* listener's and the task is outside every protected region, and the task
\* completes no Enter between the coordinator's re-acquisition of the guard
\* and the call of the closer.  (Between the receipt of the event and the
\* re-acquisition the task can still complete an Enter; the coordinator
\* then waits for the Leave.)
C15_InterruptOrCompletion ==
  /\ []((run >= 1 /\ OneEarlyInterrupt /\ Drained /\ cpc # "returned") =>
          IF e.os THEN ~InRegion(run) ELSE TaskSent(run))
  /\ [][(run >= 1 /\ OneEarlyInterrupt /\ e.os /\ cpc \in {"record", "close"})
          => ~EnterStep(run)]_vars

\* the one early SIGINT won while the task had completed no Enter; the task
\* then went through its region before the coordinator took the guard, and
\* the closer is called with the region complete
C15_Witness ==
  /\ cpc = "closing" /\ OneEarlyInterrupt
  /\ e.os /\ recvEarly
  /\ kind[run] = "protectedRunner"
  /\ result[run] >= Iterations
  /\ ~InRegion(run)
\* C16: in the first Run on a coordinator, when the event received is the
\* task's, the guard was free at the receipt and is free as long as the
\* coordinator stands before its p.Enter(), so that p.Enter() does not
\* block; the coordinator finds the guard locked there only after the
\* listener's event.
C16_ImmediateReacquisition ==
  /\ (run = 1 /\ cpc = "enter" /\ ~e.os) => (recvAt = Unlocked /\ guard = Unlocked)
  /\ (run = 1 /\ cpc = "enter" /\ guard.locked) => (e.os /\ guard.owner = 1)

\* the demo task went through its regions and ended, its event was
\* received, and the coordinator stands before p.Enter() with the guard free
C16_Witness ==
  /\ run = 1 /\ cpc = "enter"
  /\ ~e.os
  /\ kind[1] = "simple"
  /\ TaskSent(1)
  /\ guard = Unlocked
C18_LeaveOnLockedGuard ==
  /\ [][run' = run + 1 => guard = Locked(0)]_vars
  /\ [](cpc \in {"open", "opening", "leave"} => (CanLeave /\ guard = Locked(0)))

\* after a Run whose opener failed, the second Run has made its p.Leave()
C18_Witness ==
  /\ run = 2 /\ cpc = "spawn"
  /\ ~Opened(1) /\ Opened(2)
  /\ guard = Unlocked
\* C19 as stated: during a later Run the task of an earlier Run, whose
\* resource has been closed, is never inside a protected region, and the
\* guard is held only by the coordinator or by the later Run's task.
C19_StaleTaskKeptOut ==
  \A r \in Runs :
    (r < run /\ closes[r] >= 1) =>
      /\ ~InRegion(r)
      /\ guard.locked => guard.owner \in {0, run}
\* the coordinator of the current Run is at e := <-done
Receiving(r) == r = run /\ cpc = "wait"

\* C20: the event that loses the race is never delivered: a send on done
\* completes only as the one receipt of its own Run (the coordinator of
\* that Run moves from line 139 to line 142), an emitter blocked at its
\* send while its Run is not receiving stays at the send, and never have
\* both emitters of a Run completed their send.
C20_LoserStaysBlocked ==
  /\ [][\A r \in 1..run :
          /\ (lpc'[r] = "ended" /\ lpc[r] # "ended") =>
               /\ Receiving(r) /\ cpc' = "enter"
               /\ lpc[r] = "send" /\ e'.os /\ e'.s = ls[r]
               /\ tpc'[r] = tpc[r]
          /\ (tpc'[r] = Ended(r) /\ tpc[r] # Ended(r)) =>
               /\ Receiving(r) /\ cpc' = "enter"
               /\ tpc[r] = AtSend(r) /\ ~e'.os
               /\ lpc'[r] = lpc[r]
          /\ (lpc[r] = "send" /\ ~Receiving(r)) => lpc'[r] = "send"
          /\ (tpc[r] = AtSend(r) /\ ~Receiving(r)) => tpc'[r] = AtSend(r)]_vars
  /\ [](\A r \in Runs : ~(ListenerSent(r) /\ TaskSent(r)))

\* the second Run has returned on the listener's event with its task
\* wrapper left at the send, and the first Run's listener, which lost to
\* the task, is still at its send
C20_Witness ==
  /\ run = 2 /\ cpc = "returned"
  /\ TaskSent(1) /\ lpc[1] = "send"
  /\ ListenerSent(2) /\ tpc[2] = AtSend(2)
====
